---- MODULE Spec2Model ----
(***************************************************************************)
(* Model of dashboard_simple.py (Dashboard OMOP Framework IDARA).          *)
(*                                                                         *)
(* The state is the data directory (data/synthea/*.csv, data/omop/*.csv    *)
(* and data/pipeline_report_*.json), the memo of the cached                *)
(* load_real_data, and the values one run of main() computes: the loaded   *)
(* snapshot, the metrics of calculate_metrics and what the selected page   *)
(* renders.                                                                *)
(*                                                                         *)
(* Python floats are modelled as exact rationals [num, den] in lowest      *)
(* terms; on the small integers and the decimal rates used here distinct   *)
(* rationals are distinct doubles.  str() of a count is TLC's ToString.    *)
(***************************************************************************)
EXTENDS Integers, Sequences, FiniteSets, TLC

VARIABLES
    synthea_dir,      \* data/synthea: table name -> file state
    omop_dir,         \* data/omop: table name -> file state
    report_file,      \* data/pipeline_report_*.json (the one load selects)
    cache,            \* memo of @st.cache_data load_real_data
    cache_hit,        \* the load of this run was served from the memo
    data,             \* value returned by load_real_data in this run
    metrics,          \* value returned by calculate_metrics in this run
    sidebar,          \* "Estado del Sistema" and "Estado Transformacion"
    comparison_data,  \* rows built by render_comparison
    integrity_card,   \* second card of render_executive_summary
    summary_cards,    \* first and third card of render_executive_summary
    concepts_view,    \* pie chart and category row of render_concepts
    mapping_tabs,     \* tabs rendered by render_mapping_analysis
    page,             \* page selected in the sidebar
    pc                \* position of main() in the current run

vars == <<synthea_dir, omop_dir, report_file, cache, cache_hit, data,
          metrics, sidebar, comparison_data, integrity_card, summary_cards, concepts_view,
          mapping_tabs, page, pc>>

disk == <<synthea_dir, omop_dir, report_file>>
screen == <<comparison_data, integrity_card, summary_cards, concepts_view,
            mapping_tabs>>

----------------------------------------------------------------------------
(* Bounds *)

MaxCount == 2      \* rows of a csv file range over 0..MaxCount
MaxFields == 2     \* entries of concept_coverage
MaxPhases == 2     \* entries of phase_performance

----------------------------------------------------------------------------
(* Rationals standing for Python floats *)

Abs(x) == IF x < 0 THEN -x ELSE x

RECURSIVE GCD(_, _)
GCD(a, b) == IF b = 0 THEN a ELSE GCD(b, a % b)

Rat(n, d) ==
    LET g == GCD(Abs(n), Abs(d))
        s == IF d < 0 THEN -1 ELSE 1
    IN  [num |-> (s * n) \div g, den |-> (s * d) \div g]

RatAdd(x, y) == Rat(x.num * y.den + y.num * x.den, x.den * y.den)
RatDivInt(x, k) == Rat(x.num, x.den * k)
RatLeq(x, y) == x.num * y.den <= y.num * x.den
RatLt(x, y) == x.num * y.den < y.num * x.den
RatMin(x, y) == IF RatLt(y, x) THEN y ELSE x

Zero == Rat(0, 1)
One == Rat(1, 1)

----------------------------------------------------------------------------
(* Python dict helpers: a dict is a function on its key set *)

EmptyDict == [k \in {} |-> 0]
Get_MissingAsOne(d, k, default) == IF k \in DOMAIN d THEN d[k] ELSE 1
Get(d, k, default) == IF k \in DOMAIN d THEN d[k] ELSE default
DictLen(d) == Cardinality(DOMAIN d)

RECURSIVE SumSeq(_)
SumSeq(s) == IF s = <<>> THEN 0 ELSE Head(s) + SumSeq(Tail(s))

RECURSIVE RatSum(_)
RatSum(s) == IF s = <<>> THEN Zero ELSE RatAdd(Head(s), RatSum(Tail(s)))

----------------------------------------------------------------------------
(* The data directory *)

synthea_files == <<"patients", "encounters", "conditions", "medications",
                   "procedures", "observations", "allergies",
                   "organizations", "providers">>

omop_files == <<"person", "visit_occurrence", "condition_occurrence",
                "drug_exposure", "procedure_occurrence", "measurement",
                "observation", "care_site", "location", "provider",
                "observation_period">>

SeqRange(s) == {s[i] : i \in 1..Len(s)}

\* A csv file: missing, present but rejected by pd.read_csv, or present
\* with `rows` data rows.
NoFile == [exists |-> FALSE, readable |-> FALSE, rows |-> 0]
BadFile == [exists |-> TRUE, readable |-> FALSE, rows |-> 0]
CsvFile(n) == [exists |-> TRUE, readable |-> TRUE, rows |-> n]
FileStates == {NoFile, BadFile} \cup {CsvFile(n) : n \in 0..MaxCount}

----------------------------------------------------------------------------
(* The pipeline report document (json.load of pipeline_report_*.json).    *)
(* A JSON object is a record whose `keys` field is the set of keys it     *)
(* holds; a key outside `keys` carries a fixed filler value.  The entries *)
(* of concept_coverage and phase_performance are kept as sequences in     *)
(* insertion order, their names play no part in the code.  `isdict`       *)
(* tells a JSON object from any other JSON value found in its place, and  *)
(* `numeric` a JSON number from any other value of mapped_rate.           *)

DEFAULT_SUCCESS_RATE == Rat(95, 100)
DEFAULT_CONCEPT_RATE == Rat(92, 100)
DEFAULT_PROCESSING_TIME == 180

EmptySummary == [isdict |-> TRUE, keys |-> {}, overall_success_rate |-> Zero]
EmptyValidation == [isdict |-> TRUE, keys |-> {}, summary |-> EmptySummary,
                    concept_coverage |-> <<>>]
EmptyReport == [keys |-> {}, validation_results |-> EmptyValidation,
                phase_performance |-> <<>>]

Has(obj, k) == k \in obj.keys
ObjGet(obj, k, default) == IF k \in obj.keys THEN obj[k] ELSE default
Truthy(obj) == obj.keys # {}

----------------------------------------------------------------------------
(* load_real_data *)

\* variant: a file that cannot be read ends the loop
LoadCounts_StopsAtFailure(files, dir) ==
    LET bad == {i \in 1..Len(files) :
                   dir[files[i]].exists /\ ~dir[files[i]].readable}
        stop == IF bad = {} THEN Len(files) + 1
                ELSE CHOOSE i \in bad : \A j \in bad : i <= j
    IN  [t \in {files[i] : i \in {j \in 1..(stop - 1) :
                                     dir[files[j]].exists}} |->
            dir[t].rows]

\* the two loops over synthea_files / omop_files
LoadCounts(files, dir) ==
    [t \in {f \in SeqRange(files) : dir[f].exists} |->
        IF dir[t].readable THEN dir[t].rows ELSE 0]

\* variant: the content of the file is used although reading it failed
LoadReport_IgnoresFailure(rf) ==
    IF rf.exists THEN rf.doc ELSE EmptyReport

\* the pipeline report block
LoadReport(rf) ==
    IF rf.exists /\ rf.parses THEN rf.doc ELSE EmptyReport

LoadRealDataBody(sdir, odir, rf) ==
    [synthea |-> LoadCounts(synthea_files, sdir),
     omop |-> LoadCounts(omop_files, odir),
     pipeline_report |-> LoadReport(rf)]

----------------------------------------------------------------------------
(* calculate_metrics *)

\* variant: the ratio of the counts is preferred to the reported rate
SuccessRate_DerivedFirst(total_patients, omop_persons, report) ==
    IF total_patients > 0
    THEN RatMin(Rat(omop_persons, total_patients), One)
    ELSE IF Truthy(report) /\ Has(report, "validation_results")
         THEN ObjGet(ObjGet(report.validation_results, "summary",
                            EmptySummary),
                     "overall_success_rate", DEFAULT_SUCCESS_RATE)
         ELSE DEFAULT_SUCCESS_RATE

\* variant: the ratio of the counts is not capped at 1.0
SuccessRate_NoCap(total_patients, omop_persons, report) ==
    IF Truthy(report) /\ Has(report, "validation_results")
    THEN ObjGet(ObjGet(report.validation_results, "summary", EmptySummary),
                "overall_success_rate", DEFAULT_SUCCESS_RATE)
    ELSE IF total_patients > 0
         THEN Rat(omop_persons, total_patients)
         ELSE DEFAULT_SUCCESS_RATE

SuccessRate(total_patients, omop_persons, report) ==
    IF Truthy(report) /\ Has(report, "validation_results")
    THEN ObjGet(ObjGet(report.validation_results, "summary", EmptySummary),
                "overall_success_rate", DEFAULT_SUCCESS_RATE)
    ELSE IF total_patients > 0
         THEN RatMin(Rat(omop_persons, total_patients), One)
         ELSE DEFAULT_SUCCESS_RATE

PhaseDurations(phases) ==
    [i \in 1..Len(phases) |-> ObjGet(phases[i], "duration_seconds", 0)]

\* variant: a total of zero or less is returned as it is
ProcessingTime_NoDefault(report) ==
    IF Truthy(report) /\ Has(report, "phase_performance")
    THEN SumSeq(PhaseDurations(report.phase_performance))
    ELSE DEFAULT_PROCESSING_TIME

ProcessingTime(report) ==
    IF Truthy(report) /\ Has(report, "phase_performance")
    THEN LET total_time == SumSeq(PhaseDurations(report.phase_performance))
         IN  IF total_time > 0 THEN total_time ELSE DEFAULT_PROCESSING_TIME
    ELSE DEFAULT_PROCESSING_TIME

DbConnected(omop) == DictLen(omop) > 0

\* variant: an entry without mapped_rate counts as a rate of zero
RECURSIVE MappedRates_MissingAsZero(_)
MappedRates_MissingAsZero(cc) ==
    IF cc = <<>> THEN <<>>
    ELSE LET stats == Head(cc)
         IN  IF stats.isdict /\ Has(stats, "mapped_rate")
             THEN <<stats.mapped_rate>> \o MappedRates_MissingAsZero(Tail(cc))
             ELSE <<Zero>> \o MappedRates_MissingAsZero(Tail(cc))

RECURSIVE MappedRates(_)
MappedRates(cc) ==
    IF cc = <<>> THEN <<>>
    ELSE LET stats == Head(cc)
         IN  IF stats.isdict /\ Has(stats, "mapped_rate")
             THEN <<stats.mapped_rate>> \o MappedRates(Tail(cc))
             ELSE MappedRates(Tail(cc))

ConceptRate(report) ==
    IF Truthy(report) /\ Has(report, "validation_results")
    THEN LET concept_coverage ==
                 ObjGet(report.validation_results, "concept_coverage", <<>>)
             rates == MappedRates(concept_coverage)
         IN  IF concept_coverage # <<>> /\ rates # <<>>
             THEN RatDivInt(RatSum(rates), Len(rates))
             ELSE DEFAULT_CONCEPT_RATE
    ELSE DEFAULT_CONCEPT_RATE

\* report['validation_results'].get(...).get(...) on a value without .get
SuccessRateRaises(report) ==
    /\ Truthy(report) /\ Has(report, "validation_results")
    /\ \/ ~report.validation_results.isdict
       \/ /\ Has(report.validation_results, "summary")
          /\ ~report.validation_results.summary.isdict

\* phase.get(...) on a phase that is not a record
ProcessingTimeRaises(report) ==
    /\ Truthy(report) /\ Has(report, "phase_performance")
    /\ \E i \in 1..Len(report.phase_performance) :
           ~report.phase_performance[i].isdict

\* sum(rates) over a list that holds a value that is not a number
ConceptRateRaises(report) ==
    /\ Truthy(report) /\ Has(report, "validation_results")
    /\ \/ ~report.validation_results.isdict
       \/ LET concept_coverage ==
                  ObjGet(report.validation_results, "concept_coverage", <<>>)
          IN  \E i \in 1..Len(concept_coverage) :
                  /\ concept_coverage[i].isdict
                  /\ Has(concept_coverage[i], "mapped_rate")
                  /\ ~concept_coverage[i].numeric

\* calculate_metrics ends with an exception instead of a result
CalculateMetricsRaises(d) ==
    \/ SuccessRateRaises(d.pipeline_report)
    \/ ProcessingTimeRaises(d.pipeline_report)
    \/ ConceptRateRaises(d.pipeline_report)

CalculateMetricsBody(d) ==
    LET synthea == d.synthea
        omop == d.omop
        report == d.pipeline_report
    IN  [total_patients |-> Get(synthea, "patients", 0),
         total_encounters |-> Get(synthea, "encounters", 0),
         total_conditions |-> Get(synthea, "conditions", 0),
         total_medications |-> Get(synthea, "medications", 0),
         total_procedures |-> Get(synthea, "procedures", 0),
         total_observations |-> Get(synthea, "observations", 0),
         omop_persons |-> Get(omop, "person", 0),
         omop_visits |-> Get(omop, "visit_occurrence", 0),
         omop_conditions |-> Get(omop, "condition_occurrence", 0),
         omop_drugs |-> Get(omop, "drug_exposure", 0),
         omop_procedures |-> Get(omop, "procedure_occurrence", 0),
         omop_measurements |-> Get(omop, "measurement", 0),
         omop_observations |-> Get(omop, "observation", 0),
         success_rate |-> SuccessRate(Get(synthea, "patients", 0),
                                      Get(omop, "person", 0), report),
         processing_time |-> ProcessingTime(report),
         db_connected |-> DbConnected(omop),
         concept_rate |-> ConceptRate(report)]

----------------------------------------------------------------------------
(* main: the sidebar *)

\* n / d rounded to the nearest integer, ties to even (d > 0)
RoundHalfEven(n, d) ==
    LET q == n \div d
        r == n % d
    IN  IF 2 * r < d THEN q
        ELSE IF 2 * r > d THEN q + 1
        ELSE IF q % 2 = 0 THEN q ELSE q + 1

\* f"{x:.1%}" as a number of tenths of a percent
Permille(x) == RoundHalfEven(x.num * 1000, x.den)

DATOS_CARGADOS == "Datos reales cargados"
SOLO_SYNTHEA == "Solo datos Synthea"
NO_DATOS == "No se encontraron datos"

SidebarBody(d, m) ==
    [estado |-> IF m.total_patients > 0 /\ m.omop_persons > 0
                THEN DATOS_CARGADOS
                ELSE IF m.total_patients > 0 THEN SOLO_SYNTHEA
                ELSE NO_DATOS,
     archivos_synthea |-> DictLen(d.synthea),
     tablas_omop |-> DictLen(d.omop),
     pacientes |-> m.total_patients,
     exito |-> IF RatLeq(Rat(9, 10), m.success_rate)
               THEN "success" ELSE "warning",
     exito_permille |-> Permille(m.success_rate),
     minutos |-> m.processing_time \div 60,
     segundos |-> m.processing_time % 60]

NoSidebar ==
    [estado |-> "", archivos_synthea |-> 0, tablas_omop |-> 0,
     pacientes |-> 0, exito |-> "", exito_permille |-> 0, minutos |-> 0,
     segundos |-> 0]

----------------------------------------------------------------------------
(* render_executive_summary: the three cards under the detail lists *)

EXITO_COMPLETO == "EXITO COMPLETO"
EXITO_PARCIAL == "EXITO PARCIAL"
CONCEPTOS_VALIDOS == "CONCEPTOS VALIDOS"
REVISAR_CONCEPTOS == "REVISAR CONCEPTOS"

SummaryCards(m) ==
    [exito |-> IF RatLeq(Rat(9, 10), m.success_rate)
               THEN EXITO_COMPLETO ELSE EXITO_PARCIAL,
     exito_permille |-> Permille(m.success_rate),
     conceptos |-> IF RatLeq(Rat(9, 10), m.concept_rate)
                   THEN CONCEPTOS_VALIDOS ELSE REVISAR_CONCEPTOS,
     conceptos_permille |-> Permille(m.concept_rate)]

NoSummaryCards ==
    [exito |-> "", exito_permille |-> 0, conceptos |-> "",
     conceptos_permille |-> 0]

----------------------------------------------------------------------------
(* render_concepts *)

ConceptsView(m) ==
    [mapeados |-> Rat(m.concept_rate.num * 100, m.concept_rate.den),
     no_mapeados |-> Rat((m.concept_rate.den - m.concept_rate.num) * 100,
                         m.concept_rate.den),
     gastro_permille |-> Permille(m.concept_rate),
     gastro_estado |-> IF RatLeq(Rat(9, 10), m.concept_rate)
                       THEN "Excelente" ELSE "Critico"]

NoConceptsView ==
    [mapeados |-> Zero, no_mapeados |-> Zero, gastro_permille |-> 0,
     gastro_estado |-> ""]

----------------------------------------------------------------------------
(* render_mapping_analysis: the four tabs of unmapped records *)

\* entity read, default when the key is missing, mapped share, codes listed
TabSpecs ==
    << [key |-> "conditions", default |-> 54, num |-> 467, den |-> 1000,
        codes |-> 10],
       [key |-> "medications", default |-> 42, num |-> 88, den |-> 100,
        codes |-> 5],
       [key |-> "procedures", default |-> 38, num |-> 92, den |-> 100,
        codes |-> 3],
       [key |-> "observations", default |-> 28, num |-> 85, den |-> 100,
        codes |-> 4] >>

TabTotal(d, t) == Get(d.synthea, t.key, t.default)

\* one tab; int(total * rate) is the floor of the exact product for every
\* total below 200 and the four rates used
Tab(d, t) ==
    LET total == TabTotal(d, t)
        mapped == (total * t.num) \div t.den
        unmapped == total - mapped
    IN  [total |-> total,
         mapped |-> mapped,
         unmapped |-> unmapped,
         listed |-> IF unmapped < t.codes THEN unmapped ELSE t.codes,
         porcentaje |-> Rat(unmapped * 100, total)]

\* the tabs are rendered in order; unmapped / total raises
\* ZeroDivisionError on a total of 0 and ends the page there
RECURSIVE RenderTabs(_, _)
RenderTabs(d, specs) ==
    IF specs = <<>> THEN <<>>
    ELSE IF TabTotal(d, Head(specs)) = 0 THEN <<>>
    ELSE <<Tab(d, Head(specs))>> \o RenderTabs(d, Tail(specs))

MappingAnalysisRaises(d) ==
    \E i \in 1..Len(TabSpecs) : TabTotal(d, TabSpecs[i]) = 0

----------------------------------------------------------------------------
(* render_executive_summary: the "data lost?" card of the second column *)

SIN_PERDIDAS == "SIN PERDIDAS"
REVISAR_INTEGRIDAD == "REVISAR INTEGRIDAD"

IntegrityCard(m) ==
    IF m.total_patients = m.omop_persons /\ m.total_patients > 0
    THEN SIN_PERDIDAS
    ELSE REVISAR_INTEGRIDAD

----------------------------------------------------------------------------
(* render_comparison: the ten rows of comparison_data *)

EXACT == "100%"
REVISAR == "Revisar"
DIVIDIDO == "Dividido"
TRANSFORMADO == "Transformado"
SIN_DATOS == "Sin datos"
INCLUIDO == "Incluido en observation"

\* variant: a target count above the source count still reads as exact
OneToOneRow_AtLeast(d, src, tgt) ==
    [tabla_synthea |-> src,
     registros_synthea |-> ToString(Get(d.synthea, src, 0)),
     tabla_omop |-> tgt,
     registros_omop |-> ToString(Get(d.omop, tgt, 0)),
     integridad |-> IF Get(d.synthea, src, 0) <= Get(d.omop, tgt, 0)
                    THEN EXACT ELSE REVISAR]

\* the rows whose 'Integridad' compares the two counts
OneToOneRow(d, src, tgt) ==
    [tabla_synthea |-> src,
     registros_synthea |-> ToString(Get(d.synthea, src, 0)),
     tabla_omop |-> tgt,
     registros_omop |-> ToString(Get(d.omop, tgt, 0)),
     integridad |-> IF Get(d.synthea, src, 0) = Get(d.omop, tgt, 0)
                    THEN EXACT ELSE REVISAR]

\* variant: only the first OMOP table is counted
SplitRow_FirstOnly(d, src, tgt1, tgt2) ==
    [tabla_synthea |-> src,
     registros_synthea |-> ToString(Get(d.synthea, src, 0)),
     tabla_omop |-> tgt1 \o " + " \o tgt2,
     registros_omop |-> ToString(Get(d.omop, tgt1, 0)),
     integridad |-> IF Get(d.omop, tgt1, 0) + Get(d.omop, tgt2, 0) > 0
                    THEN DIVIDIDO ELSE REVISAR]

\* the rows whose source table is divided over two OMOP tables
SplitRow(d, src, tgt1, tgt2) ==
    [tabla_synthea |-> src,
     registros_synthea |-> ToString(Get(d.synthea, src, 0)),
     tabla_omop |-> tgt1 \o " + " \o tgt2,
     registros_omop |-> ToString(Get(d.omop, tgt1, 0) + Get(d.omop, tgt2, 0)),
     integridad |-> IF Get(d.omop, tgt1, 0) + Get(d.omop, tgt2, 0) > 0
                    THEN DIVIDIDO ELSE REVISAR]

AllergiesRow(d) ==
    [tabla_synthea |-> "allergies",
     registros_synthea |-> ToString(Get(d.synthea, "allergies", 0)),
     tabla_omop |-> "observation (alergias)",
     registros_omop |-> INCLUIDO,
     integridad |-> IF Get(d.synthea, "allergies", 0) > 0
                    THEN TRANSFORMADO ELSE SIN_DATOS]

RenderComparisonBody(d) ==
    << OneToOneRow(d, "patients", "person"),
       OneToOneRow(d, "encounters", "visit_occurrence"),
       OneToOneRow(d, "conditions", "condition_occurrence"),
       OneToOneRow(d, "medications", "drug_exposure"),
       OneToOneRow(d, "procedures", "procedure_occurrence"),
       SplitRow(d, "observations", "measurement", "observation"),
       SplitRow(d, "organizations", "care_site", "location"),
       OneToOneRow(d, "providers", "provider"),
       OneToOneRow(d, "patients", "observation_period"),
       AllergiesRow(d) >>

----------------------------------------------------------------------------
(* Values before anything is computed in a run *)

NoData == [synthea |-> EmptyDict, omop |-> EmptyDict,
           pipeline_report |-> EmptyReport]

NoMetrics ==
    [total_patients |-> 0, total_encounters |-> 0, total_conditions |-> 0,
     total_medications |-> 0, total_procedures |-> 0,
     total_observations |-> 0, omop_persons |-> 0, omop_visits |-> 0,
     omop_conditions |-> 0, omop_drugs |-> 0, omop_procedures |-> 0,
     omop_measurements |-> 0, omop_observations |-> 0,
     success_rate |-> Zero, processing_time |-> 0, db_connected |-> FALSE,
     concept_rate |-> Zero]

EmptyCache == [valid |-> FALSE, value |-> NoData]

----------------------------------------------------------------------------
(* Input families: the contents of the data directory when the app starts *)

SeqsUpTo(S, n) == UNION {[1..k -> S] : k \in 0..n}

\* overall_success_rate as a run may have written it, out of range included
ReportedRates == {Rat(-1, 2), Rat(1, 2), One, Rat(3, 2)}
MappedRateValues == {Rat(467, 1000), Rat(88, 100)}
DurationValues == {-30, 0, 90}

Summaries ==
    {EmptySummary} \cup
    {[isdict |-> TRUE, keys |-> {"overall_success_rate"},
      overall_success_rate |-> v] :
        v \in ReportedRates}

\* an entry of concept_coverage: not a record, a record without
\* mapped_rate, a record with mapped_rate
StatsValues ==
    {[isdict |-> FALSE, keys |-> {}, mapped_rate |-> Zero, numeric |-> TRUE],
     [isdict |-> TRUE, keys |-> {}, mapped_rate |-> Zero, numeric |-> TRUE]}
    \cup
    {[isdict |-> TRUE, keys |-> {"mapped_rate"}, mapped_rate |-> v,
      numeric |-> TRUE] :
        v \in MappedRateValues}

PhaseValues ==
    {[isdict |-> TRUE, keys |-> {}, duration_seconds |-> 0]} \cup
    {[isdict |-> TRUE, keys |-> {"duration_seconds"},
      duration_seconds |-> v] :
        v \in DurationValues}

Coverages == SeqsUpTo(StatsValues, MaxFields)
Phases == SeqsUpTo(PhaseValues, MaxPhases)

SampleCoverage ==
    <<[isdict |-> TRUE, keys |-> {"mapped_rate"},
       mapped_rate |-> Rat(467, 1000), numeric |-> TRUE]>>
SamplePhases ==
    <<[isdict |-> TRUE, keys |-> {"duration_seconds"},
       duration_seconds |-> 90]>>

\* validation_results with the given optional sections (<<>> = no key,
\* <<v>> = key with value v)
Validation(summary, coverage) ==
    [isdict |-> TRUE,
     keys |-> (IF summary # <<>> THEN {"summary"} ELSE {}) \cup
              (IF coverage # <<>> THEN {"concept_coverage"} ELSE {}),
     summary |-> IF summary # <<>> THEN summary[1] ELSE EmptySummary,
     concept_coverage |-> IF coverage # <<>> THEN coverage[1] ELSE <<>>]

Document(validation, phases, other) ==
    [keys |-> (IF validation # <<>> THEN {"validation_results"} ELSE {}) \cup
              (IF phases # <<>> THEN {"phase_performance"} ELSE {}) \cup
              (IF other THEN {"run_id"} ELSE {}),
     validation_results |->
         IF validation # <<>> THEN validation[1] ELSE EmptyValidation,
     phase_performance |-> IF phases # <<>> THEN phases[1] ELSE <<>>]

Opt(S) == {<<>>} \cup {<<v>> : v \in S}

NoReportFile == [exists |-> FALSE, parses |-> FALSE, doc |-> EmptyReport]
BadReportFile == [exists |-> TRUE, parses |-> FALSE, doc |-> EmptyReport]
ReportFile(doc) == [exists |-> TRUE, parses |-> TRUE, doc |-> doc]

\* documents that vary the success summary against sample other sections
SuccessDocuments ==
    {Document(v, p, o) :
        v \in Opt({Validation(s, c) :
                     s \in Opt(Summaries),
                     c \in Opt({<<>>, SampleCoverage})}),
        p \in Opt({SamplePhases}),
        o \in BOOLEAN}

\* documents that vary concept_coverage
CoverageDocuments ==
    {Document(<<Validation(s, c)>>, p, FALSE) :
        s \in Opt({[isdict |-> TRUE, keys |-> {"overall_success_rate"},
                    overall_success_rate |-> Rat(1, 2)]}),
        c \in Opt(Coverages),
        p \in Opt({SamplePhases})}

\* documents that vary phase_performance
PhaseDocuments ==
    {Document(v, <<p>>, FALSE) :
        v \in Opt({Validation(<<>>, <<SampleCoverage>>)}),
        p \in Phases}

\* values of the wrong shape: a string, a list or null where the code
\* expects a record or a number
NotARecordSummary ==
    [isdict |-> FALSE, keys |-> {}, overall_success_rate |-> Zero]
NotARecordValidation ==
    [isdict |-> FALSE, keys |-> {}, summary |-> EmptySummary,
     concept_coverage |-> <<>>]
NotARecordPhase == [isdict |-> FALSE, keys |-> {}, duration_seconds |-> 0]
NonNumericStats ==
    [isdict |-> TRUE, keys |-> {"mapped_rate"}, mapped_rate |-> Zero,
     numeric |-> FALSE]

\* documents with one field of the wrong shape
MalformedDocuments ==
    {Document(<<NotARecordValidation>>, p, FALSE) :
        p \in Opt({SamplePhases})} \cup
    {Document(<<Validation(<<NotARecordSummary>>, c)>>, p, FALSE) :
        c \in Opt({SampleCoverage}), p \in Opt({SamplePhases})} \cup
    {Document(v, <<ph>>, FALSE) :
        v \in Opt({Validation(<<>>, <<SampleCoverage>>)}),
        ph \in {<<NotARecordPhase>>, <<SamplePhases[1], NotARecordPhase>>}}
    \cup
    {Document(<<Validation(s, <<c>>)>>, p, FALSE) :
        s \in Opt(Summaries), p \in Opt({SamplePhases}),
        c \in {<<NonNumericStats>>, <<SampleCoverage[1], NonNumericStats>>}}

Documents ==
    SuccessDocuments \cup CoverageDocuments \cup PhaseDocuments
        \cup MalformedDocuments

\* the source table and the OMOP tables of each row of comparison_data
RowTables ==
    << [src |-> "patients", tgt |-> <<"person">>],
       [src |-> "encounters", tgt |-> <<"visit_occurrence">>],
       [src |-> "conditions", tgt |-> <<"condition_occurrence">>],
       [src |-> "medications", tgt |-> <<"drug_exposure">>],
       [src |-> "procedures", tgt |-> <<"procedure_occurrence">>],
       [src |-> "observations", tgt |-> <<"measurement", "observation">>],
       [src |-> "organizations", tgt |-> <<"care_site", "location">>],
       [src |-> "providers", tgt |-> <<"provider">>],
       [src |-> "patients", tgt |-> <<"observation_period">>],
       [src |-> "allergies", tgt |-> <<"observation">>] >>

\* data/synthea and data/omop holding the files of patients -> person and
\* of row r, every other file missing
SyntheaRowDir(r, pat, a) ==
    [f \in SeqRange(synthea_files) |->
        IF f = "patients" THEN pat
        ELSE IF f = RowTables[r].src THEN a ELSE NoFile]

OmopRowDir(r, per, b, c) ==
    [f \in SeqRange(omop_files) |->
        IF f = "person" THEN per
        ELSE IF f = RowTables[r].tgt[1] THEN b
        ELSE IF f = RowTables[r].tgt[Len(RowTables[r].tgt)] THEN c
        ELSE NoFile]

\* the states of the source file and of the two target files of row r
\* (patients.csv and person.csv are chosen apart)
SourceStates(r) ==
    IF RowTables[r].src = "patients" THEN {NoFile} ELSE FileStates
FirstTargetStates(r) ==
    IF RowTables[r].tgt[1] = "person" THEN {NoFile} ELSE FileStates
SecondTargetStates(r) ==
    IF Len(RowTables[r].tgt) = 2 THEN FileStates ELSE {NoFile}

\* a directory holding exactly the readable files of `counts`
DirOf(files, counts) ==
    [f \in SeqRange(files) |->
        IF f \in DOMAIN counts THEN CsvFile(counts[f]) ELSE NoFile]

\* the worked scenarios A, B and C of the specification
ScenarioDirs ==
    {[s |-> DirOf(synthea_files, "patients" :> 30),
      o |-> DirOf(omop_files, "person" :> 30)],
     [s |-> DirOf(synthea_files, "patients" :> 30),
      o |-> DirOf(omop_files, "person" :> 28)],
     [s |-> DirOf(synthea_files, "observations" :> 50),
      o |-> DirOf(omop_files, "measurement" :> 20 @@ "observation" :> 30)]}

\* a complete report in a file that open() refuses
LockedReportFile ==
    [exists |-> TRUE, parses |-> FALSE,
     doc |-> Document(<<Validation(
                          <<[isdict |-> TRUE,
                             keys |-> {"overall_success_rate"},
                             overall_success_rate |-> One]>>,
                          <<SampleCoverage>>)>>,
                      <<SamplePhases>>, FALSE)]

ReportFiles ==
    {NoReportFile, BadReportFile, LockedReportFile} \cup
    {ReportFile(doc) : doc \in Documents}

----------------------------------------------------------------------------
(* The app *)

\* the files of one row of the comparison table, no report
InitRowFiles ==
    \E r \in 1..Len(RowTables), pat \in FileStates, per \in FileStates :
        \E a \in SourceStates(r), b \in FirstTargetStates(r),
           c \in SecondTargetStates(r) :
            /\ synthea_dir = SyntheaRowDir(r, pat, a)
            /\ omop_dir = OmopRowDir(r, per, b, c)
            /\ report_file = NoReportFile

InitScenarioFiles ==
    \E d \in ScenarioDirs :
        /\ synthea_dir = d.s
        /\ omop_dir = d.o
        /\ report_file = NoReportFile

\* patients.csv, person.csv and a report
InitReportFiles ==
    \E pat \in FileStates \ {BadFile}, per \in FileStates \ {BadFile},
       rf \in ReportFiles :
        /\ synthea_dir = SyntheaRowDir(1, pat, NoFile)
        /\ omop_dir = OmopRowDir(1, per, NoFile, NoFile)
        /\ report_file = rf

\* every subset of the source files, or of the OMOP files, missing
AllFiles(fs) == [f \in SeqRange(fs) |-> CsvFile(1)]
FilesOf(fs, S) ==
    [f \in SeqRange(fs) |-> IF f \in S THEN CsvFile(1) ELSE NoFile]

InitSubsetFiles ==
    /\ \/ \E S \in SUBSET SeqRange(synthea_files) :
             /\ synthea_dir = FilesOf(synthea_files, S)
             /\ omop_dir = AllFiles(omop_files)
       \/ \E T \in SUBSET SeqRange(omop_files) :
             /\ synthea_dir = AllFiles(synthea_files)
             /\ omop_dir = FilesOf(omop_files, T)
    /\ report_file = NoReportFile

Init ==
    /\ \/ InitRowFiles
       \/ InitScenarioFiles
       \/ InitReportFiles
       \/ InitSubsetFiles
    /\ cache = EmptyCache
    /\ cache_hit = FALSE
    /\ data = NoData
    /\ metrics = NoMetrics
    /\ sidebar = NoSidebar
    /\ comparison_data = <<>>
    /\ integrity_card = ""
    /\ summary_cards = NoSummaryCards
    /\ concepts_view = NoConceptsView
    /\ mapping_tabs = <<>>
    /\ page = ""
    /\ pc = "start"

\* main: data = load_real_data(), first call (the body runs and is memoized)
LoadRealData ==
    /\ pc = "start"
    /\ ~cache.valid
    /\ data' = LoadRealDataBody(synthea_dir, omop_dir, report_file)
    /\ cache' = [valid |-> TRUE, value |-> data']
    /\ cache_hit' = FALSE
    /\ pc' = "loaded"
    /\ UNCHANGED <<disk, metrics, sidebar, screen, page>>

\* variant: a later call reads the files again
LoadRealDataCached_Reloads ==
    /\ pc = "start"
    /\ cache.valid
    /\ data' = LoadRealDataBody(synthea_dir, omop_dir, report_file)
    /\ cache_hit' = TRUE
    /\ pc' = "loaded"
    /\ UNCHANGED <<disk, cache, metrics, sidebar, screen, page>>

\* main: data = load_real_data(), later calls (st.cache_data returns the memo)
LoadRealDataCached ==
    /\ pc = "start"
    /\ cache.valid
    /\ data' = cache.value
    /\ cache_hit' = TRUE
    /\ pc' = "loaded"
    /\ UNCHANGED <<disk, cache, metrics, sidebar, screen, page>>

\* main: metrics = calculate_metrics(data)
CalculateMetrics ==
    /\ pc = "loaded"
    /\ IF CalculateMetricsRaises(data)
       THEN /\ metrics' = metrics
            /\ pc' = "failed_metrics"
       ELSE /\ metrics' = CalculateMetricsBody(data)
            /\ pc' = "computed"
    /\ UNCHANGED <<disk, cache, cache_hit, data, sidebar, screen, page>>

\* main: header and sidebar
RenderSidebar ==
    /\ pc = "computed"
    /\ sidebar' = SidebarBody(data, metrics)
    /\ pc' = "sidebar"
    /\ UNCHANGED <<disk, cache, cache_hit, data, metrics, screen, page>>

\* main: page == "Resumen Ejecutivo"
RenderExecutiveSummary ==
    /\ pc = "sidebar"
    /\ page' = "Resumen Ejecutivo"
    /\ integrity_card' = IntegrityCard(metrics)
    /\ summary_cards' = SummaryCards(metrics)
    /\ pc' = "rendered"
    /\ UNCHANGED <<disk, cache, cache_hit, data, metrics, sidebar,
                   comparison_data,
                   concepts_view, mapping_tabs>>

\* main: page == "Comparacion Detallada"
RenderComparison ==
    /\ pc = "sidebar"
    /\ page' = "Comparacion Detallada"
    /\ comparison_data' = RenderComparisonBody(data)
    /\ pc' = "rendered"
    /\ UNCHANGED <<disk, cache, cache_hit, data, metrics, sidebar,
                   integrity_card,
                   summary_cards, concepts_view, mapping_tabs>>

\* main: page == "Mapeo de Conceptos"
RenderConcepts ==
    /\ pc = "sidebar"
    /\ page' = "Mapeo de Conceptos"
    /\ concepts_view' = ConceptsView(metrics)
    /\ pc' = "rendered"
    /\ UNCHANGED <<disk, cache, cache_hit, data, metrics, sidebar,
                   comparison_data,
                   integrity_card, summary_cards, mapping_tabs>>

\* main: page == "Analisis de Mapeo Detallado"
RenderMappingAnalysis ==
    /\ pc = "sidebar"
    /\ page' = "Analisis de Mapeo Detallado"
    /\ mapping_tabs' = RenderTabs(data, TabSpecs)
    /\ pc' = IF MappingAnalysisRaises(data) THEN "failed_page" ELSE "rendered"
    /\ UNCHANGED <<disk, cache, cache_hit, data, metrics, sidebar,
                   comparison_data,
                   integrity_card, summary_cards, concepts_view>>

\* Streamlit reruns the script on the next interaction, also after a run
\* that ended with an exception
Rerun ==
    /\ pc \in {"rendered", "failed_metrics", "failed_page"}
    /\ pc' = "start"
    /\ cache_hit' = FALSE
    /\ data' = NoData
    /\ metrics' = NoMetrics
    /\ sidebar' = NoSidebar
    /\ comparison_data' = <<>>
    /\ integrity_card' = ""
    /\ summary_cards' = NoSummaryCards
    /\ concepts_view' = NoConceptsView
    /\ mapping_tabs' = <<>>
    /\ page' = ""
    /\ UNCHANGED <<disk, cache>>

Next ==
    \/ LoadRealData
    \/ LoadRealDataCached
    \/ CalculateMetrics
    \/ RenderSidebar
    \/ RenderExecutiveSummary
    \/ RenderComparison
    \/ RenderConcepts
    \/ RenderMappingAnalysis
    \/ Rerun

Spec == Init /\ [][Next]_vars

----------------------------------------------------------------------------
(* The app while the files under data/ change *)

\* pipeline reports that appear, disappear or are rewritten
EnvReportFiles ==
    {NoReportFile, BadReportFile,
     ReportFile(Document(<<Validation(
                    <<[isdict |-> TRUE, keys |-> {"overall_success_rate"},
                       overall_success_rate |-> One]>>, <<>>)>>,
                <<>>, FALSE))}

InitEnv ==
    /\ \E pat \in FileStates, per \in FileStates, rf \in EnvReportFiles :
           /\ synthea_dir = SyntheaRowDir(1, pat, NoFile)
           /\ omop_dir = OmopRowDir(1, per, NoFile, NoFile)
           /\ report_file = rf
    /\ cache = EmptyCache
    /\ cache_hit = FALSE
    /\ data = NoData
    /\ metrics = NoMetrics
    /\ sidebar = NoSidebar
    /\ comparison_data = <<>>
    /\ integrity_card = ""
    /\ summary_cards = NoSummaryCards
    /\ concepts_view = NoConceptsView
    /\ mapping_tabs = <<>>
    /\ page = ""
    /\ pc = "start"

\* the pipeline or the user rewrites, removes or adds patients.csv,
\* person.csv or the pipeline report, at any moment
ChangeFile ==
    /\ \/ \E st \in FileStates \ {synthea_dir["patients"]} :
             /\ synthea_dir' = [synthea_dir EXCEPT !["patients"] = st]
             /\ UNCHANGED <<omop_dir, report_file>>
       \/ \E st \in FileStates \ {omop_dir["person"]} :
             /\ omop_dir' = [omop_dir EXCEPT !["person"] = st]
             /\ UNCHANGED <<synthea_dir, report_file>>
       \/ \E rf \in EnvReportFiles \ {report_file} :
             /\ report_file' = rf
             /\ UNCHANGED <<synthea_dir, omop_dir>>
    /\ UNCHANGED <<cache, cache_hit, data, metrics, sidebar, screen, page,
                   pc>>

NextEnv == Next \/ ChangeFile

SpecEnv == InitEnv /\ [][NextEnv]_vars

----------------------------------------------------------------------------
(* Properties *)

\* metrics holds the result of calculate_metrics for data
Computed == pc \in {"computed", "sidebar", "rendered", "failed_page"}
Compared == pc = "rendered" /\ page = "Comparacion Detallada"

report == data.pipeline_report
patients == Get(data.synthea, "patients", 0)
person == Get(data.omop, "person", 0)

\* the report carries validation_results.summary.overall_success_rate
HasOverallRate ==
    /\ "validation_results" \in report.keys
    /\ "summary" \in report.validation_results.keys
    /\ "overall_success_rate" \in report.validation_results.summary.keys

OverallRate == report.validation_results.summary.overall_success_rate

\* the derived tier, then the default tier
DerivedOrDefault ==
    IF patients > 0
    THEN (IF person >= patients THEN One ELSE Rat(person, patients))
    ELSE Rat(95, 100)

\* C1: a report that exists without an overall_success_rate makes
\* success_rate fall back to min(person / patients, 1.0) when patients > 0
\* and to 0.95 only when patients = 0.
C1_PartialReportFallsBack ==
    (Computed /\ report.keys # {} /\ ~HasOverallRate)
        => metrics.success_rate = DerivedOrDefault

\* C2: success_rate lies in [0.0, 1.0] for every snapshot and every report.
C2_SuccessRateInUnitInterval ==
    Computed =>
        /\ metrics.success_rate.num >= 0
        /\ metrics.success_rate.num <= metrics.success_rate.den

\* C3: when the report carries validation_results.summary
\* .overall_success_rate, success_rate is exactly that value, whatever the
\* patients and person counts are.
C3_MeasuredRateVerbatim ==
    (Computed /\ HasOverallRate) => metrics.success_rate = OverallRate

\* a measured rate that differs from the derived one was returned
C3_Witness ==
    /\ Computed
    /\ HasOverallRate
    /\ patients > 0
    /\ person = patients
    /\ metrics.success_rate = Rat(1, 2)

\* C4: with no report, success_rate = min(person / patients, 1.0) if
\* patients > 0 and 0.95 otherwise, concept_rate = 0.92 and
\* processing_time = 180; 30/30 gives 1.0 and 28/30 gives 28/30.
C4_AbsentReportDefaults ==
    (Computed /\ report.keys = {}) =>
        /\ metrics.success_rate = DerivedOrDefault
        /\ metrics.concept_rate = Rat(92, 100)
        /\ metrics.processing_time = 180
        /\ (patients = 30 /\ person = 30) => metrics.success_rate = One
        /\ (patients = 30 /\ person = 28) => metrics.success_rate = Rat(14, 15)

C4_Witness ==
    /\ Computed
    /\ report.keys = {}
    /\ patients = 30
    /\ person = 28
    /\ metrics.success_rate = Rat(28, 30)
    /\ metrics.processing_time = 180

\* the counts behind row i of comparison_data
SourceCount(i) == Get(data.synthea, RowTables[i].src, 0)
TargetSum(i) ==
    SumSeq([k \in 1..Len(RowTables[i].tgt) |->
               Get(data.omop, RowTables[i].tgt[k], 0)])

OneToOneRows == {1, 2, 3, 4, 5, 8, 9}
SplitRows == {6, 7, 10}

\* C5: a row of the comparison table is classified no-data if and only if
\* its source count is 0.
C5_NoDataIffSourceZero ==
    Compared =>
        \A i \in 1..Len(comparison_data) :
            (comparison_data[i].integridad = SIN_DATOS) <=> (SourceCount(i) = 0)

\* C6: a one-to-one row with source count > 0 is '100%' if the source count
\* equals the target count and 'Revisar' otherwise, absent tables counting 0.
C6_OneToOneClassification ==
    Compared =>
        \A i \in OneToOneRows :
            SourceCount(i) > 0 =>
                comparison_data[i].integridad =
                    IF SourceCount(i) = TargetSum(i) THEN EXACT ELSE REVISAR

\* patients -> person is exact while patients -> observation_period is not
C6_Witness ==
    /\ Compared
    /\ SourceCount(1) > 0
    /\ comparison_data[1].integridad = EXACT
    /\ comparison_data[9].integridad = REVISAR

\* C7: a split/merge row (observations, organizations, allergies) with
\* source count > 0 is Transformed if and only if its summed target count
\* is > 0, and Discrepant when the summed target count is 0.
C7_SplitClassification ==
    Compared =>
        \A i \in SplitRows :
            SourceCount(i) > 0 =>
                /\ (comparison_data[i].integridad \in {DIVIDIDO, TRANSFORMADO})
                       <=> (TargetSum(i) > 0)
                /\ (TargetSum(i) = 0) => comparison_data[i].integridad = REVISAR

C9_ConnectedIffPositiveTarget ==
    Computed =>
        (metrics.db_connected <=>
            \E t \in DOMAIN data.omop : data.omop[t] > 0)

\* the entries of concept_coverage, and those that expose mapped_rate
Coverage ==
    IF /\ "validation_results" \in report.keys
       /\ "concept_coverage" \in report.validation_results.keys
    THEN report.validation_results.concept_coverage
    ELSE <<>>
Exposing ==
    {i \in 1..Len(Coverage) :
        Coverage[i].isdict /\ "mapped_rate" \in Coverage[i].keys}

RECURSIVE SumThousandths(_)
SumThousandths(S) ==
    IF S = {} THEN 0
    ELSE LET i == CHOOSE x \in S : TRUE
         IN  (Coverage[i].mapped_rate.num * 1000)
                 \div Coverage[i].mapped_rate.den
             + SumThousandths(S \ {i})

\* C10: concept_rate is the unweighted mean of mapped_rate over exactly the
\* concept_coverage entries that expose it, and 0.92 when there is none;
\* rates 0.467 and 0.88 give 0.6735.
C10_ConceptRateIsMean ==
    Computed =>
        /\ Exposing = {} => metrics.concept_rate = Rat(92, 100)
        /\ Exposing # {} =>
               metrics.concept_rate.num * 1000 * Cardinality(Exposing)
                   = SumThousandths(Exposing) * metrics.concept_rate.den
        /\ (/\ Exposing = {1, 2}
            /\ Len(Coverage) = 2
            /\ Coverage[1].mapped_rate = Rat(467, 1000)
            /\ Coverage[2].mapped_rate = Rat(88, 100))
               => metrics.concept_rate = Rat(6735, 10000)

\* one entry without mapped_rate is skipped and the other one is the mean
C10_Witness ==
    /\ Computed
    /\ Len(Coverage) = 2
    /\ Exposing = {2}
    /\ Coverage[2].mapped_rate = Rat(88, 100)
    /\ metrics.concept_rate = Rat(88, 100)

\* the phases of phase_performance, and those that carry duration_seconds
PhaseEntries ==
    IF "phase_performance" \in report.keys
    THEN report.phase_performance ELSE <<>>
Timed ==
    {i \in 1..Len(PhaseEntries) : "duration_seconds" \in PhaseEntries[i].keys}

RECURSIVE SumDurations(_)
SumDurations(S) ==
    IF S = {} THEN 0
    ELSE LET i == CHOOSE x \in S : TRUE
         IN  PhaseEntries[i].duration_seconds + SumDurations(S \ {i})

\* C11: processing_time is the sum of duration_seconds over the phases (a
\* phase without it adds 0) when that sum is > 0, and 180 when the sum is
\* zero, the phase map is empty or the report or section is absent; it is
\* never negative or zero.
C11_ProcessingTimeIsSum ==
    Computed =>
        /\ SumDurations(Timed) > 0 =>
               metrics.processing_time = SumDurations(Timed)
        /\ SumDurations(Timed) = 0 => metrics.processing_time = 180
        /\ metrics.processing_time > 0

\* two phases, 90 s and -30 s, add up to 60 s
C11_Witness ==
    /\ Computed
    /\ Len(PhaseEntries) = 2
    /\ Timed = {1, 2}
    /\ PhaseEntries[1].duration_seconds = 90
    /\ PhaseEntries[2].duration_seconds = -30
    /\ metrics.processing_time = 60

\* a field of the loaded report has the wrong shape
Malformed ==
    \/ /\ "validation_results" \in report.keys
       /\ \/ ~report.validation_results.isdict
          \/ /\ "summary" \in report.validation_results.keys
             /\ ~report.validation_results.summary.isdict
          \/ \E i \in 1..Len(report.validation_results.concept_coverage) :
                 LET stats == report.validation_results.concept_coverage[i]
                 IN  stats.isdict /\ "mapped_rate" \in stats.keys
                         /\ ~stats.numeric
    \/ /\ "phase_performance" \in report.keys
       /\ \E i \in 1..Len(report.phase_performance) :
              ~report.phase_performance[i].isdict

\* C12: with a report field of the wrong shape (a mapped_rate that is not
\* numeric, a phase that is not a record, a validation_results or summary
\* that is not a record) calculate_metrics still returns a complete result
\* and never fails.
C12_MalformedReportNeverFails ==
    Malformed => pc # "failed_metrics"

\* the metric that carries the count of each entity
CountMetrics ==
    << [of |-> "synthea", key |-> "patients", field |-> "total_patients"],
       [of |-> "synthea", key |-> "encounters", field |-> "total_encounters"],
       [of |-> "synthea", key |-> "conditions", field |-> "total_conditions"],
       [of |-> "synthea", key |-> "medications",
        field |-> "total_medications"],
       [of |-> "synthea", key |-> "procedures", field |-> "total_procedures"],
       [of |-> "synthea", key |-> "observations",
        field |-> "total_observations"],
       [of |-> "omop", key |-> "person", field |-> "omop_persons"],
       [of |-> "omop", key |-> "visit_occurrence", field |-> "omop_visits"],
       [of |-> "omop", key |-> "condition_occurrence",
        field |-> "omop_conditions"],
       [of |-> "omop", key |-> "drug_exposure", field |-> "omop_drugs"],
       [of |-> "omop", key |-> "procedure_occurrence",
        field |-> "omop_procedures"],
       [of |-> "omop", key |-> "measurement", field |-> "omop_measurements"],
       [of |-> "omop", key |-> "observation",
        field |-> "omop_observations"] >>

\* the count an entity has in the snapshot, 0 when it is missing
CountOrZero(counts, k) == IF k \in DOMAIN counts THEN counts[k] ELSE 0

RECURSIVE CountsOrZero(_, _)
CountsOrZero(counts, ks) ==
    IF ks = <<>> THEN 0
    ELSE CountOrZero(counts, Head(ks)) + CountsOrZero(counts, Tail(ks))

\* C13: whatever entities are missing from the snapshot and whatever
\* sections are missing from a report of the right shape, calculate_metrics
\* and the comparison table complete without error, and a missing entity
\* counts 0 in the metrics and in the rows.
C13_MissingReadAsZero ==
    /\ (pc # "start" /\ ~Malformed) => pc # "failed_metrics"
    /\ Computed =>
           \A i \in 1..Len(CountMetrics) :
               LET c == CountMetrics[i]
               IN  metrics[c.field] = CountOrZero(data[c.of], c.key)
    /\ Compared =>
           /\ Len(comparison_data) = Len(RowTables)
           /\ \A r \in 1..Len(RowTables) :
                  /\ comparison_data[r].registros_synthea =
                         ToString(CountOrZero(data.synthea, RowTables[r].src))
                  /\ r # Len(RowTables) =>
                         comparison_data[r].registros_omop =
                             ToString(CountsOrZero(data.omop,
                                                   RowTables[r].tgt))

\* patients.csv is missing and the report has no validation_results
C13_Witness ==
    /\ Compared
    /\ "patients" \notin DOMAIN data.synthea
    /\ "person" \in DOMAIN data.omop
    /\ report.keys = {"phase_performance"}
    /\ metrics.total_patients = 0
    /\ comparison_data[1].registros_synthea = "0"

\* the branch of the success_rate computation that produces the value
SuccessTier(total_patients, rep) ==
    IF Truthy(rep) /\ Has(rep, "validation_results")
    THEN IF Has(ObjGet(rep.validation_results, "summary", EmptySummary),
                "overall_success_rate")
         THEN "measured" ELSE "default"
    ELSE IF total_patients > 0 THEN "derived" ELSE "default"

\* reports that differ from the loaded one in the success summary only
TierProbes ==
    {EmptyReport} \cup
    {Document(<<Validation(<<s>>, <<>>)>>, <<>>, FALSE) : s \in Summaries}

\* C14: the result of calculate_metrics tells which tier produced
\* success_rate: two inputs with different tiers never give the same result.
C14_TierRetained ==
    Computed =>
        \A r \in TierProbes :
            LET other == [data EXCEPT !.pipeline_report = r]
            IN  (~CalculateMetricsRaises(other)
                     /\ CalculateMetricsBody(other) = metrics)
                    => SuccessTier(patients, r) = SuccessTier(patients, report)

\* the sidebar of the current run has been drawn
SidebarShown == pc \in {"sidebar", "rendered", "failed_page"}

\* no source file and no target file could be loaded
NoSnapshot == DOMAIN data.synthea = {} /\ DOMAIN data.omop = {}

\* C15: with no count snapshot at all and no measured rate in a report, the
\* run ends in a clear no-data outcome: the sidebar and the executive
\* summary present no success rate.
C15_NoSnapshotNoSuccessRate ==
    (SidebarShown /\ NoSnapshot /\ ~HasOverallRate) =>
        /\ sidebar.estado = NO_DATOS
        /\ sidebar.exito \notin {"success", "warning"}
        /\ summary_cards.exito \notin {EXITO_COMPLETO, EXITO_PARCIAL}

\* C17: render_mapping_analysis completes without an arithmetic error for
\* every snapshot: all four tabs are rendered and each unmapped percentage
\* is computed over a total > 0, also when the entity is present with
\* count 0.
C17_MappingAnalysisCompletes ==
    page = "Analisis de Mapeo Detallado" =>
        /\ pc = "rendered"
        /\ Len(mapping_tabs) = Len(TabSpecs)
        /\ \A i \in 1..Len(mapping_tabs) : mapping_tabs[i].total > 0

\* C18: the two views of patients -> person agree: the executive summary
\* says no data was lost exactly when the patients-person row of the
\* comparison table is classified 100%.
C18_IntegrityViewsAgree ==
    /\ (pc = "rendered" /\ page = "Resumen Ejecutivo") =>
           (integrity_card = SIN_PERDIDAS
                <=> RenderComparisonBody(data)[1].integridad = EXACT)
    /\ Compared =>
           (IntegrityCard(metrics) = SIN_PERDIDAS
                <=> comparison_data[1].integridad = EXACT)

\* the snapshot the files under data/ would give if they were read now
Fresh == LoadRealDataBody(synthea_dir, omop_dir, report_file)

\* C19: while the files change, every call of load_real_data after the
\* first returns the snapshot of the first call, the memo is never replaced
\* or dropped, and the metrics are those of that first snapshot.
C19_LaterLoadsReturnFirstSnapshot ==
    [][cache.valid =>
           /\ cache' = cache
           /\ (pc = "start" /\ pc' = "loaded") => data' = cache.value
           /\ (pc = "loaded" /\ pc' = "computed") =>
                  metrics' = CalculateMetricsBody(cache.value)]_vars

\* a later call has returned a snapshot the files no longer give, and its
\* metrics have been computed
C19_Witness ==
    /\ cache_hit
    /\ pc = "computed"
    /\ data = cache.value
    /\ data # Fresh
    /\ metrics # CalculateMetricsBody(Fresh)

\* what one file contributes to the snapshot
LoadedAs(counts, dir, f) ==
    /\ f \in DOMAIN counts <=> dir[f].exists
    /\ (dir[f].exists /\ dir[f].readable) => counts[f] = dir[f].rows
    /\ (dir[f].exists /\ ~dir[f].readable) => counts[f] = 0

\* C20: load_real_data treats each listed file on its own: the entity is a
\* key of the snapshot exactly when the file exists, with the number of
\* rows when it is read and 0 when reading fails, whatever happens to the
\* other files.
C20_EachFileLoadedIndependently ==
    (pc # "start" /\ ~cache_hit) =>
        /\ DOMAIN data.synthea \subseteq SeqRange(synthea_files)
        /\ DOMAIN data.omop \subseteq SeqRange(omop_files)
        /\ \A f \in SeqRange(synthea_files) :
               LoadedAs(data.synthea, synthea_dir, f)
        /\ \A f \in SeqRange(omop_files) : LoadedAs(data.omop, omop_dir, f)

\* patients.csv cannot be read and a file listed after it is counted
C20_Witness ==
    /\ pc = "loaded"
    /\ ~cache_hit
    /\ synthea_dir["patients"] = BadFile
    /\ data.synthea["patients"] = 0
    /\ \E f \in DOMAIN data.synthea : data.synthea[f] > 0
    /\ \E f \in DOMAIN data.omop : data.omop[f] > 0

\* the selected report file is missing, or cannot be opened or parsed
ReportUnavailable == ~report_file.exists \/ ~report_file.parses

\* C21: when the report file is missing or cannot be opened or parsed,
\* load_real_data returns an empty report next to the counts of the files,
\* and calculate_metrics gives the metrics of an absent report: the derived
\* or default success rate, concept_rate 0.92 and processing_time 180.
C21_UnreadableReportIsAbsent ==
    (pc # "start" /\ ReportUnavailable) =>
        /\ report.keys = {}
        /\ \A f \in SeqRange(synthea_files) :
               LoadedAs(data.synthea, synthea_dir, f)
        /\ \A f \in SeqRange(omop_files) : LoadedAs(data.omop, omop_dir, f)
        /\ pc # "failed_metrics"
        /\ Computed =>
               /\ metrics.success_rate = DerivedOrDefault
               /\ metrics.concept_rate = Rat(92, 100)
               /\ metrics.processing_time = 180

\* a complete report that cannot be opened, 2 patients and 1 person: the
\* success rate is the derived 1/2, not the reported 1
C21_Witness ==
    /\ Computed
    /\ report_file = LockedReportFile
    /\ metrics.total_patients = 2
    /\ metrics.omop_persons = 1
    /\ metrics.success_rate = Rat(1, 2)
    /\ metrics.processing_time = 180

====
